---- MODULE Spec2Model ----
(***************************************************************************)
(* Model of reads-utils/guess-encoding.py: guessing the quality-score      *)
(* encoding of a FASTQ file from the ASCII values of its quality lines.    *)
(*                                                                         *)
(* A quality line is a sequence of character codes.  One step of the model *)
(* is one iteration of the loop of main() over the quality lines, together *)
(* with the exit code that runs when the iteration leaves the loop.        *)
(***************************************************************************)
EXTENDS Integers, Sequences, FiniteSets

VARIABLES
    num_lines_to_test,                   \* args.num_lines_to_test (-n)
    disable_early_stop_from_heuristics,  \* args.disable_early_stop_from_heuristics (-d)
    disable_uncertain_heuristics,        \* args.disable_uncertain_heuristics (-D)
    gmin, gmax,                          \* running bounds
    valid,                               \* list of candidate encodings
    stop_updating_valid,                 \* the heuristic lock
    is_valid_modified,                   \* flag returned by heuristic_filter
    err_exit,                            \* set when no encoding fits
    i,                                   \* enumerate index of the last line read, -1 before
    pc,                                  \* where the run is: scanning or how it ended
    exit_status,                         \* process exit status, -1 while running
    output,                              \* the reported <<valid, gmin, gmax>>, <<>> if none
    seen,                                \* history: <<>> or <<lowest, highest>> code read so far
    b_common,                            \* history: 66 was among the most common of the last line
    at_or_a,                             \* history: the last line held 64 or 65
    fn_arg,                              \* the caller's argument objects of a function called on its own, <<>> in main()
    called_with                          \* history: fn_arg as it was when the call was made, <<>> before

vars == <<num_lines_to_test, disable_early_stop_from_heuristics,
          disable_uncertain_heuristics, gmin, gmax, valid, stop_updating_valid,
          is_valid_modified, err_exit, i, pc, exit_status, output, seen, b_common,
          at_or_a, fn_arg, called_with>>

----------------------------------------------------------------------------
(* Bounds of the model *)

\* longest quality line drawn from the whole alphabet (ProbeLines adds longer ones)
MaxLineLen == 1
\* most quality lines an input file holds
MaxLines == 4
\* largest line limit given with -n
MaxLimit == 1

----------------------------------------------------------------------------
(* Constants of the program *)

\* RANGES, in the order the dictionary is iterated (insertion order)
RANGES ==
    << <<"Sanger", 33, 73>>,
       <<"Illumina-1.8", 33, 74>>,
       <<"Solexa", 59, 104>>,
       <<"Illumina-1.3", 64, 104>>,
       <<"Illumina-1.5", 66, 105>> >>

N_MOST_COMMON_THRESH == 4

\* initial values of gmin and gmax
GMIN_INIT == 99
GMAX_INIT == 0

\* default of --num_lines_to_test
NO_LIMIT == -1

\* ASCII codes the heuristics look at: '@', 'A', 'B'
ORD_AT == 64
ORD_A == 65
ORD_B == 66

\* the line feed that ends a line read from the file
NEWLINE == 10

----------------------------------------------------------------------------
(* Inputs *)

\* Character codes around the limits of RANGES, and a blank.
Alphabet == {32, 33, 59, 64, 65, 66, 73, 74, 104, 105}

\* The doctest string of get_qual_range
DoctestLine ==
    <<68, 76, 88, 89, 88, 88, 82, 88, 87, 89, 89, 84, 80, 77, 76, 85, 85, 81,
      87, 84, 88, 84, 82, 83, 88, 83, 87, 77, 68, 77, 84, 82, 78, 68, 78, 83,
      77, 74, 70, 74, 70, 70, 82, 77, 86>>

\* Lines of several values: "!I", "!J", ";h", "@h", "Bh", "hB", "Bi", "5 ", " 5",
\* "@B", "BA",
\* and lines of five distinct values: "CDEFB", "BCDEF", "CDEFBB", "CDEFhB"
ProbeLines ==
    { DoctestLine,
      <<33, 73>>, <<33, 74>>, <<59, 104>>, <<64, 104>>, <<66, 104>>, <<104, 66>>,
      <<66, 105>>, <<53, 32>>, <<32, 53>>, <<64, 66>>, <<66, 65>>,
      <<67, 68, 69, 70, 66>>,
      <<66, 67, 68, 69, 70>>,
      <<67, 68, 69, 70, 66, 66>>,
      <<67, 68, 69, 70, 104, 66>> }

\* The text of a quality line, before the line feed
LineTexts == (UNION {[1..k -> Alphabet] : k \in 0..MaxLineLen}) \cup ProbeLines

Limits == {NO_LIMIT} \cup (0..MaxLimit)

----------------------------------------------------------------------------
(* Helpers on lists *)

SetOf(s) == {s[k] : k \in 1..Len(s)}

MinOf(S) == CHOOSE x \in S : \A y \in S : x <= y
MaxOf(S) == CHOOSE x \in S : \A y \in S : x >= y

Min2(a, b) == IF a <= b THEN a ELSE b
Max2(a, b) == IF a >= b THEN a ELSE b

\* list.remove(x): drops the first occurrence of x
ListRemove(s, x) ==
    LET k == MinOf({j \in 1..Len(s) : s[j] = x})
    IN  SubSeq(s, 1, k - 1) \o SubSeq(s, k + 1, Len(s))

\* str.isspace() for the ASCII codes
IsSpace(c) == c \in {9, 10, 11, 12, 13, 28, 29, 30, 31, 32}

\* str.rstrip(): drops the trailing white space
RECURSIVE rstrip(_)
rstrip(s) ==
    IF Len(s) > 0 /\ IsSpace(s[Len(s)]) THEN rstrip(SubSeq(s, 1, Len(s) - 1)) ELSE s

----------------------------------------------------------------------------
(* collections.Counter, as the list of <<value, count>> in insertion order *)

\* Counter(list): a key for each distinct value, in the order of the first
\* occurrences, with the number of occurrences
Counter(s) ==
    LET firsts == {k \in 1..Len(s) : \A j \in 1..(k - 1) : s[j] # s[k]}
        nth(n) == CHOOSE k \in firsts : Cardinality({j \in firsts : j < k}) = n - 1
        keys   == [n \in 1..Cardinality(firsts) |->
                     <<s[nth(n)], Cardinality({j \in 1..Len(s) : s[j] = s[nth(n)]})>>]
    IN  SubSeq(keys, 1, Cardinality(firsts))

\* qual_val_counts[v]: 0 for a value that is not a key
CountOf(c, v) ==
    IF \E k \in 1..Len(c) : c[k][1] = v
    THEN c[CHOOSE k \in 1..Len(c) : c[k][1] = v][2]
    ELSE 0

\* the values of Counter.elements()
Elements(c) == {c[k][1] : k \in {j \in 1..Len(c) : c[j][2] > 0}}

\* Counter.most_common(n): the n largest counts, ties in insertion order
RECURSIVE most_common(_, _)
most_common(c, n) ==
    IF n <= 0 \/ Len(c) = 0 THEN <<>>
    ELSE LET top == MaxOf({c[k][2] : k \in 1..Len(c)})
             j == MinOf({k \in 1..Len(c) : c[k][2] = top})
         IN  <<c[j]>> \o most_common(SubSeq(c, 1, j - 1) \o SubSeq(c, j + 1, Len(c)), n - 1)

----------------------------------------------------------------------------
(* get_qual_range *)

\* min() and max() raise ValueError on an empty line
QualRangeRaises(qual_str) == Len(qual_str) = 0

\* variant of line 50: the two bounds returned in the wrong order
get_qual_range_Swapped(qual_str) ==
    LET qual_val_counts == Counter(qual_str)
    IN  <<MaxOf(Elements(qual_val_counts)), MinOf(Elements(qual_val_counts)),
          qual_val_counts>>

get_qual_range(qual_str) ==
    LET qual_val_counts == Counter(qual_str)
    IN  <<MinOf(Elements(qual_val_counts)), MaxOf(Elements(qual_val_counts)),
          qual_val_counts>>

\* What rstrip and get_qual_range give for each line of the input
Stripped == [text \in LineTexts |-> rstrip(Append(text, NEWLINE))]

QualRange ==
    [text \in LineTexts |->
        IF QualRangeRaises(Stripped[text]) THEN <<>> ELSE get_qual_range(Stripped[text])]

----------------------------------------------------------------------------
(* get_encodings_in_range *)

\* variants of line 56: a strict upper comparison, a flipped lower comparison, a strict lower comparison
InRange_StrictMax(rmin, rmax, emin, emax) == rmin >= emin /\ rmax < emax
InRange_FlippedMin(rmin, rmax, emin, emax) == rmin <= emin /\ rmax <= emax
InRange_StrictMin(rmin, rmax, emin, emax) == rmin > emin /\ rmax <= emax

InRange(rmin, rmax, emin, emax) == rmin >= emin /\ rmax <= emax

RECURSIVE EncodingsLoop(_, _, _, _)
EncodingsLoop(k, rmin, rmax, valid_encodings) ==
    IF k > Len(RANGES) THEN valid_encodings
    ELSE EncodingsLoop(k + 1, rmin, rmax,
            IF InRange(rmin, rmax, RANGES[k][2], RANGES[k][3])
            THEN Append(valid_encodings, RANGES[k][1])
            ELSE valid_encodings)

get_encodings_in_range(rmin, rmax) == EncodingsLoop(1, rmin, rmax, <<>>)

----------------------------------------------------------------------------
(* heuristic_filter: returns <<valid, is_valid_modified>> *)

HeuristicApplies(v) == Len(v) > 1 /\ "Illumina-1.5" \in SetOf(v)

\* variant of line 72: only 64 is looked up
HardRule_OnlyAt(qual_val_counts) == CountOf(qual_val_counts, ORD_AT) > 0

HardRule(qual_val_counts) ==
    CountOf(qual_val_counts, ORD_AT) > 0 \/ CountOf(qual_val_counts, ORD_A) > 0

\* variant of lines 80-81: 66 only has to occur in the line
BIsCommon_Present(qual_val_counts) == CountOf(qual_val_counts, ORD_B) > 0

BIsCommon(qual_val_counts) ==
    \E k \in 1..Len(most_common(qual_val_counts, N_MOST_COMMON_THRESH)) :
        most_common(qual_val_counts, N_MOST_COMMON_THRESH)[k][1] = ORD_B

\* variant of line 77: the option read the wrong way round
SoftRule_Inverted(qual_val_counts, disable_uncertain) ==
    disable_uncertain /\ BIsCommon(qual_val_counts)

SoftRule(qual_val_counts, disable_uncertain) ==
    ~disable_uncertain /\ BIsCommon(qual_val_counts)

heuristic_filter(v, qual_val_counts, disable_uncertain) ==
    IF HeuristicApplies(v)
    THEN IF HardRule(qual_val_counts)
         THEN <<ListRemove(v, "Illumina-1.5"), TRUE>>
         ELSE IF SoftRule(qual_val_counts, disable_uncertain)
              THEN <<(<<"Illumina-1.5">>), TRUE>>
              ELSE <<v, FALSE>>
    ELSE <<v, FALSE>>

\* the list object passed as valid, after the call: valid.remove of line 73
\* changes the caller's list in place; line 87 only rebinds the local name
heuristic_filter_arg(v, qual_val_counts) ==
    IF HeuristicApplies(v) /\ HardRule(qual_val_counts)
    THEN ListRemove(v, "Illumina-1.5")
    ELSE v

----------------------------------------------------------------------------
(* The conditions of the loop of main() *)

\* variant of line 145: the test is dropped, every line counts as an extension
BoundsExtended_Always(lmin, lmax, g1, g2) == TRUE

\* line 145
BoundsExtended(lmin, lmax, g1, g2) == lmin < g1 \/ lmax > g2

\* variant of line 146: the lower bound is not taken over
NewBounds_KeepMin(lmin, lmax, g1, g2) == <<g1, Max2(lmax, g2)>>

\* variant of line 146: the bounds of the line replace the running bounds
NewBounds_Overwrite(lmin, lmax, g1, g2) == <<lmin, lmax>>

\* line 146
NewBounds(lmin, lmax, g1, g2) == <<Min2(lmin, g1), Max2(lmax, g2)>>

\* variant of line 155: every list but a unique guess counts as a failure
NoEncodings_NotUnique(v) == Len(v) # 1

\* variant of line 155: the test for an empty list never fires
NoEncodings_Dropped(v) == FALSE

\* line 155
NoEncodings(v) == Len(v) = 0

\* line 161
UniqueGuess(v, limit) == Len(v) = 1 /\ limit = NO_LIMIT

\* variant of lines 163-165: a guess made by a heuristic never stops the scan
EarlyStop_NeverOnHeuristic(modified, disable_early) == ~modified

\* lines 163-165
EarlyStop(modified, disable_early) == ~(modified /\ disable_early)

\* line 172
LimitReached(limit, idx) == limit > 0 /\ idx > limit

----------------------------------------------------------------------------
(* main() *)

Init ==
    /\ num_lines_to_test \in Limits
    /\ disable_early_stop_from_heuristics \in BOOLEAN
    /\ disable_uncertain_heuristics \in BOOLEAN
    /\ gmin = GMIN_INIT
    /\ gmax = GMAX_INIT
    /\ valid = <<>>
    /\ stop_updating_valid = FALSE
    /\ is_valid_modified = FALSE
    /\ err_exit = FALSE
    /\ i = -1
    /\ pc = "scan"
    /\ exit_status = -1
    /\ output = <<>>
    /\ seen = <<>>
    /\ b_common = FALSE
    /\ at_or_a = FALSE
    /\ fn_arg = <<>>
    /\ called_with = <<>>

Args == <<num_lines_to_test, disable_early_stop_from_heuristics,
          disable_uncertain_heuristics>>

\* Lines 155-174 and 176-182: how the iteration ends, once valid is settled
Conclude(g, v, modified, extended, seen_now, b_now) ==
    LET failed  == extended /\ NoEncodings(v)
        unique  == extended /\ ~failed /\ UniqueGuess(v, num_lines_to_test)
        found   == unique /\ EarlyStop(modified, disable_early_stop_from_heuristics)
        lock    == unique /\ ~found /\ modified
        limited == ~failed /\ ~found /\ LimitReached(num_lines_to_test, i + 1)
    IN  /\ gmin' = g[1]
        /\ gmax' = g[2]
        /\ valid' = v
        /\ is_valid_modified' = modified
        /\ stop_updating_valid' = (stop_updating_valid \/ lock)
        /\ err_exit' = failed
        /\ pc' = IF failed THEN "error"
                 ELSE IF found THEN "unique"
                 ELSE IF limited THEN "limit"
                 ELSE "scan"
        /\ exit_status' = IF failed THEN 1 ELSE IF found \/ limited THEN 0 ELSE -1
        /\ output' = IF found \/ limited THEN <<v, g[1], g[2]>> ELSE <<>>
        /\ seen' = seen_now
        /\ b_common' = b_now

\* Lines 143-153: the loop body for a line that get_qual_range accepts
Iterate(r) ==
    LET lmin   == r[1]
        lmax   == r[2]
        counts == r[3]
        seen_now == IF seen = <<>> THEN <<lmin, lmax>>
                    ELSE <<Min2(seen[1], lmin), Max2(seen[2], lmax)>>
    IN  /\ IF BoundsExtended(lmin, lmax, gmin, gmax)
           THEN \E g \in {NewBounds(lmin, lmax, gmin, gmax)} :
                  IF ~stop_updating_valid
                  THEN \E hf \in {heuristic_filter(get_encodings_in_range(g[1], g[2]), counts,
                                                   disable_uncertain_heuristics)} :
                         Conclude(g, hf[1], hf[2], TRUE, seen_now, BIsCommon(counts))
                  ELSE Conclude(g, valid, is_valid_modified, TRUE, seen_now, BIsCommon(counts))
           ELSE Conclude(<<gmin, gmax>>, valid, is_valid_modified, FALSE, seen_now,
                         BIsCommon(counts))
        /\ at_or_a' = HardRule(counts)

\* get_qual_range raises: the run ends with a traceback and status 1
Raise ==
    /\ pc' = "crash"
    /\ exit_status' = 1
    /\ b_common' = FALSE
    /\ at_or_a' = FALSE
    /\ UNCHANGED <<gmin, gmax, valid, is_valid_modified, stop_updating_valid,
                   err_exit, output, seen>>

\* One iteration of the loop, for the quality line with the given text
ReadText(text) ==
    /\ pc = "scan"
    /\ IF QualRangeRaises(Stripped[text]) THEN Raise ELSE Iterate(QualRange[text])
    /\ i' = i + 1
    /\ UNCHANGED <<Args, fn_arg, called_with>>

\* The next quality line of the input is read
ReadLine ==
    /\ i + 1 < MaxLines
    /\ \E text \in LineTexts : ReadText(text)

\* The input ends: the loop is left and the result is printed
EndOfInput ==
    /\ pc = "scan"
    /\ pc' = "eof"
    /\ exit_status' = 0
    /\ output' = <<valid, gmin, gmax>>
    /\ UNCHANGED <<gmin, gmax, valid, is_valid_modified, stop_updating_valid,
                   err_exit, i, seen, b_common, at_or_a>>
    /\ UNCHANGED <<Args, fn_arg, called_with>>

Next == ReadLine \/ EndOfInput

Spec == Init /\ [][Next]_vars

----------------------------------------------------------------------------
(* get_encodings_in_range on its own: called on an interval, then called  *)
(* again on wider intervals                                               *)

\* Interval ends around every limit of RANGES, and those of the doctest line
FnCodes == {32, 33, 34, 58, 59, 60, 63, 64, 65, 66, 67, 68, 72, 73, 74, 75, 89,
            103, 104, 105, 106}

FnInit ==
    /\ num_lines_to_test = NO_LIMIT
    /\ disable_early_stop_from_heuristics = FALSE
    /\ disable_uncertain_heuristics = FALSE
    /\ gmin \in FnCodes
    /\ gmax \in FnCodes
    /\ valid = <<>>
    /\ stop_updating_valid = FALSE
    /\ is_valid_modified = FALSE
    /\ err_exit = FALSE
    /\ i = -1
    /\ pc = "call"
    /\ exit_status = -1
    /\ output = <<>>
    /\ seen = <<>>
    /\ b_common = FALSE
    /\ at_or_a = FALSE
    /\ fn_arg = <<>>
    /\ called_with = <<>>

FnRest == <<num_lines_to_test, disable_early_stop_from_heuristics,
            disable_uncertain_heuristics, stop_updating_valid, is_valid_modified,
            err_exit, i, exit_status, output, seen, b_common, at_or_a, fn_arg,
            called_with>>

\* valid = get_encodings_in_range(gmin, gmax)
FnCall ==
    /\ pc = "call"
    /\ valid' = get_encodings_in_range(gmin, gmax)
    /\ pc' = "ret"
    /\ UNCHANGED <<gmin, gmax>>
    /\ UNCHANGED FnRest

\* the interval is widened and the function is called on the wider one
FnWiden ==
    /\ pc \in {"ret", "widened"}
    /\ \E rmin \in FnCodes, rmax \in FnCodes :
        /\ rmin <= gmin
        /\ rmax >= gmax
        /\ <<rmin, rmax>> # <<gmin, gmax>>
        /\ gmin' = rmin
        /\ gmax' = rmax
        /\ valid' = get_encodings_in_range(rmin, rmax)
    /\ pc' = "widened"
    /\ UNCHANGED FnRest

FnNext == FnCall \/ FnWiden

SpecFn == FnInit /\ [][FnNext]_vars

----------------------------------------------------------------------------
(* heuristic_filter on its own: called once on a candidate list, the       *)
(* histogram of a line and the option                                      *)

\* the sub-lists of the encodings of RANGES, in the order of RANGES
SubList(S) ==
    LET nth(m) == CHOOSE k \in S : Cardinality({j \in S : j < k}) = m - 1
    IN  [m \in 1..Cardinality(S) |-> RANGES[nth(m)][1]]

CandidateLists == {SubList(S) : S \in SUBSET (1..Len(RANGES))}

\* the histograms of the lines of the input, the empty one included
Histograms == {Counter(Stripped[text]) : text \in LineTexts}

HfInit ==
    /\ num_lines_to_test = NO_LIMIT
    /\ disable_early_stop_from_heuristics = FALSE
    /\ disable_uncertain_heuristics = FALSE
    /\ gmin = GMIN_INIT
    /\ gmax = GMAX_INIT
    /\ valid = <<>>
    /\ stop_updating_valid = FALSE
    /\ is_valid_modified = FALSE
    /\ err_exit = FALSE
    /\ i = -1
    /\ pc = "call"
    /\ exit_status = -1
    /\ output = <<>>
    /\ seen = <<>>
    /\ b_common = FALSE
    /\ at_or_a = FALSE
    /\ fn_arg \in CandidateLists \X Histograms \X BOOLEAN
    /\ called_with = <<>>

\* output = heuristic_filter(valid, qual_val_counts, disable_uncertain_heuristics);
\* the list passed as valid is the caller's object, which the hard rule changes
HfCall ==
    /\ pc = "call"
    /\ output' = heuristic_filter(fn_arg[1], fn_arg[2], fn_arg[3])
    /\ fn_arg' = << heuristic_filter_arg(fn_arg[1], fn_arg[2]), fn_arg[2], fn_arg[3] >>
    /\ called_with' = fn_arg
    /\ pc' = "ret"
    /\ UNCHANGED <<Args, gmin, gmax, valid, stop_updating_valid, is_valid_modified,
                   err_exit, i, exit_status, seen, b_common, at_or_a>>

SpecHf == HfInit /\ [][HfCall]_vars

----------------------------------------------------------------------------
(* get_qual_range on its own: called once on a quality string              *)

\* quality strings one longer than the lines of the input, the empty one included
QualStrings == (UNION {[1..k -> Alphabet] : k \in 0..(MaxLineLen + 1)}) \cup ProbeLines

QrInit ==
    /\ num_lines_to_test = NO_LIMIT
    /\ disable_early_stop_from_heuristics = FALSE
    /\ disable_uncertain_heuristics = FALSE
    /\ gmin = GMIN_INIT
    /\ gmax = GMAX_INIT
    /\ valid = <<>>
    /\ stop_updating_valid = FALSE
    /\ is_valid_modified = FALSE
    /\ err_exit = FALSE
    /\ i = -1
    /\ pc = "call"
    /\ exit_status = -1
    /\ output = <<>>
    /\ seen = <<>>
    /\ b_common = FALSE
    /\ at_or_a = FALSE
    /\ fn_arg \in QualStrings
    /\ called_with = <<>>

\* output = get_qual_range(qual_str), or ValueError is raised
QrCall ==
    /\ pc = "call"
    /\ IF QualRangeRaises(fn_arg)
       THEN pc' = "raised" /\ output' = <<>>
       ELSE pc' = "ret" /\ output' = get_qual_range(fn_arg)
    /\ called_with' = fn_arg
    /\ UNCHANGED <<Args, gmin, gmax, valid, stop_updating_valid, is_valid_modified,
                   err_exit, i, exit_status, seen, b_common, at_or_a, fn_arg>>

SpecQr == QrInit /\ [][QrCall]_vars

----------------------------------------------------------------------------
(* Properties *)

\* the bounds were extended by the step
RangeUpdate == gmin' # gmin \/ gmax' # gmax

\* the run has ended with a printed result
Reported == pc \in {"unique", "limit", "eof"}

\* C1: whenever a range update leaves the candidate list empty, under every
\* configuration, the run is in ERROR at that line: exit status 1, no result
\* reported, and no step follows ERROR (no further line is consumed).
C1_EmptyCandidatesIsError ==
    [][ /\ pc # "error"
        /\ (RangeUpdate /\ Len(valid') = 0)
              => (pc' = "error" /\ err_exit' /\ exit_status' = 1 /\ output' = <<>>)
        /\ pc' = "error" => (Len(valid') = 0 /\ exit_status' = 1 /\ output' = <<>>)
      ]_vars

\* ERROR reached on a later line of a run that has a line limit
C1_Witness == pc = "error" /\ num_lines_to_test > 0 /\ i >= 1 /\ Len(valid) = 0

\* C2 (as claimed): with a line limit N > 0 the loop consumes at most N quality lines.
C2_AtMostLimitLines ==
    num_lines_to_test > 0 => i + 1 <= num_lines_to_test

\* C3: with no line limit, a range update that leaves exactly one candidate (by
\* the ranges, or by a heuristic while early stopping on heuristics is allowed)
\* ends the scan at that line: the result reported is that candidate with the
\* running bounds of that line, and no step follows.
C3_UniqueStopsScan ==
    [][ /\ pc # "unique"
        /\ ( /\ num_lines_to_test = NO_LIMIT
             /\ RangeUpdate
             /\ Len(valid') = 1
             /\ ~(is_valid_modified' /\ disable_early_stop_from_heuristics) )
              => ( /\ pc' = "unique"
                   /\ exit_status' = 0
                   /\ i' = i + 1
                   /\ output' = <<valid', gmin', gmax'>> )
      ]_vars

\* the scan stopped on a heuristic guess, on a later line
C3_Witness ==
    /\ pc = "unique"
    /\ is_valid_modified
    /\ ~disable_early_stop_from_heuristics
    /\ i >= 1
    /\ output = <<(<<"Illumina-1.5">>), gmin, gmax>>

\* C4 (as claimed): from the locked state every step either consumes the next
\* line and stays locked and scanning, or is the end of the input; the bounds
\* still follow the lines, the candidate list never changes, ERROR is unreachable.
C4_LockedScansToEnd ==
    [][ stop_updating_valid =>
          /\ valid' = valid
          /\ stop_updating_valid'
          /\ gmin' <= gmin /\ gmax' >= gmax
          /\ pc' \in {"scan", "eof"}
          /\ pc' = "scan" => i' = i + 1
          /\ pc' = "eof" => (i' = i /\ output' = <<valid, gmin, gmax>>)
      ]_vars

\* C5: get_encodings_in_range(min, max) holds exactly the encodings of RANGES
\* with emin <= min and emax >= max, each once; for (68, 89) Sanger is left out.
C5_ExactEncodings ==
    pc \in {"ret", "widened"} =>
        /\ SetOf(valid) = {RANGES[k][1] :
                             k \in {j \in 1..Len(RANGES) :
                                      RANGES[j][2] <= gmin /\ RANGES[j][3] >= gmax}}
        /\ Len(valid) = Cardinality(SetOf(valid))
        /\ (gmin = 68 /\ gmax = 89) => "Sanger" \notin SetOf(valid)

\* the function has returned for the bounds of the doctest line
C5_Witness ==
    /\ pc = "ret"
    /\ gmin = 68
    /\ gmax = 89
    /\ valid = <<"Solexa", "Illumina-1.3", "Illumina-1.5">>

\* C6: the result for a wider interval is a subset of the result for the
\* interval it widens.
C6_Monotonic ==
    [][ (pc \in {"ret", "widened"} /\ pc' = "widened")
          => SetOf(valid') \subseteq SetOf(valid) ]_vars

\* the function was called again on a wider interval and lost a candidate
C6_Witness ==
    /\ pc = "widened"
    /\ gmin = 64
    /\ gmax = 104
    /\ valid = <<"Solexa", "Illumina-1.3">>

\* C7 (as claimed): when a range update brings the bounds to [64, 104] on a
\* line with 'B' among the 4 most common values and the soft heuristic is on,
\* the candidates collapse to Illumina-1.5, flagged as heuristic.
C7_CollapseAt64 ==
    [][ ( /\ RangeUpdate
          /\ gmin' = 64 /\ gmax' = 104
          /\ b_common'
          /\ ~disable_uncertain_heuristics )
          => (valid' = <<"Illumina-1.5">> /\ is_valid_modified') ]_vars

\* C7 (amended): the same with the bounds brought to [66, 104].
C7_CollapseAt66 ==
    [][ ( /\ RangeUpdate
          /\ gmin' = 66 /\ gmax' = 104
          /\ b_common'
          /\ ~disable_uncertain_heuristics )
          => (valid' = <<"Illumina-1.5">> /\ is_valid_modified') ]_vars

\* the bounds stand at [66, 104] after a line with 'B' among its most common
C7_Witness ==
    /\ gmin = 66 /\ gmax = 104
    /\ b_common
    /\ ~disable_uncertain_heuristics
    /\ valid = <<"Illumina-1.5">>
    /\ is_valid_modified

\* C8 (as claimed): when every value read lies in [33, 73] the run never reaches
\* ERROR and ends with exactly Sanger and Illumina-1.8.
C8_SangerRangeGivesTwo ==
    (seen # <<>> /\ seen[1] >= 33 /\ seen[2] <= 73) =>
        /\ pc # "error"
        /\ Reported => SetOf(output[1]) = {"Sanger", "Illumina-1.8"}

\* C8 (amended): when every value read lies in [33, 73] the run never reaches
\* ERROR, and a result reported with global-min below 59 holds exactly Sanger
\* and Illumina-1.8, unless the heuristic lock had frozen the candidate list.
C8_SangerRangeBelow59 ==
    (seen # <<>> /\ seen[1] >= 33 /\ seen[2] <= 73) =>
        /\ pc # "error"
        /\ (Reported /\ output[2] < 59 /\ ~stop_updating_valid)
              => output[1] = <<"Sanger", "Illumina-1.8">>

\* a whole file in [33, 73] was read to its end and gave the two candidates
C8_Witness ==
    /\ pc = "eof"
    /\ seen = <<33, 73>>
    /\ i >= 1
    /\ output = <<(<<"Sanger", "Illumina-1.8">>), 33, 73>>

\* C9 (as claimed): once a non-empty line was processed the running bounds are
\* the lowest and highest values of the lines processed so far.
C9_BoundsAreObserved ==
    seen # <<>> => (gmin = seen[1] /\ gmax = seen[2])

\* C10: global-min never increases and global-max never decreases, in every
\* state, the locked state included.
C10_BoundsMonotonic ==
    [][gmin' <= gmin /\ gmax' >= gmax]_vars

\* the bounds moved while the candidate list was locked
C10_Witness ==
    /\ stop_updating_valid
    /\ gmin < 66
    /\ gmax = 105
    /\ i >= 2

\* C11 (as claimed): an empty quality line is skipped; it never aborts the run.
C11_EmptyLineSkipped ==
    [][ pc' # "crash" ]_vars

\* C12: a step that ends the run by the end of the input or by the line limit
\* while more than one candidate is left ends it without ERROR: status 0 and
\* the candidates reported with the bounds.
C12_AmbiguousIsSuccess ==
    [][ (pc = "scan" /\ pc' \notin {"scan", "crash"} /\ Len(valid') > 1)
          => ( /\ pc' \in {"eof", "limit"}
               /\ ~err_exit'
               /\ exit_status' = 0
               /\ output' = <<valid', gmin', gmax'>> ) ]_vars

\* the line limit ended a run that still had several candidates
C12_Witness ==
    /\ pc = "limit"
    /\ Len(valid) > 1
    /\ exit_status = 0
    /\ output = <<valid, gmin, gmax>>

\* the histogram c gives value v a count above 0
Occurs(c, v) == \E k \in 1..Len(c) : c[k][1] = v /\ c[k][2] > 0

\* value v is one of the n most frequent of histogram c: fewer than n values
\* have a higher count, or the same count and an earlier first occurrence
RanksAmong(c, v, n) ==
    \E k \in 1..Len(c) :
        /\ c[k][1] = v
        /\ Cardinality({j \in 1..Len(c) :
                           c[j][2] > c[k][2] \/ (c[j][2] = c[k][2] /\ j < k)}) < n

\* heuristic_filter was called on a list of several candidates with Illumina-1.5
HfAmbiguous ==
    /\ pc = "ret"
    /\ Len(called_with[1]) > 1
    /\ \E k \in 1..Len(called_with[1]) : called_with[1][k] = "Illumina-1.5"

\* C13: hard rule.  For a list of several candidates with Illumina-1.5 and a
\* histogram where 64 or 65 occurs, the result is the list without Illumina-1.5,
\* the others kept in place, and the flag is true, whatever the option says.
C13_HardRule ==
    (HfAmbiguous /\ (Occurs(called_with[2], 64) \/ Occurs(called_with[2], 65))) =>
        /\ output[1] = SelectSeq(called_with[1], LAMBDA e : e # "Illumina-1.5")
        /\ Len(output[1]) = Len(called_with[1]) - 1
        /\ output[2] = TRUE

\* the hard rule fired on "BA" with the soft rule enabled; the list the caller
\* passed is itself the four-element result
C13_Witness ==
    /\ pc = "ret"
    /\ fn_arg[1] = output[1]
    /\ called_with = << <<"Sanger", "Illumina-1.8", "Solexa", "Illumina-1.3", "Illumina-1.5">>,
                   << <<66, 1>>, <<65, 1>> >>, FALSE >>
    /\ output = << <<"Sanger", "Illumina-1.8", "Solexa", "Illumina-1.3">>, TRUE >>

\* C14: soft rule.  For a list of several candidates with Illumina-1.5 and a
\* histogram without 64 and 65: with the soft heuristic enabled and 66 among
\* the 4 most frequent values the result is exactly Illumina-1.5, flagged;
\* otherwise the list is returned unchanged, not flagged.
C14_SoftRule ==
    (HfAmbiguous /\ ~Occurs(called_with[2], 64) /\ ~Occurs(called_with[2], 65)) =>
        IF ~called_with[3] /\ RanksAmong(called_with[2], 66, 4)
        THEN output = << <<"Illumina-1.5">>, TRUE >>
        ELSE output = << called_with[1], FALSE >>

\* the soft rule fired on "CDEFBB", where 'B' comes last but is the most frequent
C14_Witness ==
    /\ pc = "ret"
    /\ fn_arg = called_with
    /\ called_with = << <<"Solexa", "Illumina-1.3", "Illumina-1.5">>,
                   << <<67, 1>>, <<68, 1>>, <<69, 1>>, <<70, 1>>, <<66, 2>> >>, FALSE >>
    /\ output = << <<"Illumina-1.5">>, TRUE >>

\* get_qual_range returned <<min, max, ...>> with min <= max, both codes of the
\* string, min the smallest and max the largest of them
QrBoundsOfString ==
    /\ pc = "ret"
    /\ Len(output) = 3
    /\ output[1] <= output[2]
    /\ \E k \in 1..Len(fn_arg) : fn_arg[k] = output[1]
    /\ \E k \in 1..Len(fn_arg) : fn_arg[k] = output[2]
    /\ \A k \in 1..Len(fn_arg) : output[1] <= fn_arg[k] /\ fn_arg[k] <= output[2]

\* C15 (as claimed): for every quality string the call returns such a pair.
C15_BoundsForAllStrings ==
    pc # "call" => QrBoundsOfString

\* C15 (amended): for every non-empty quality string the call returns such a pair.
C15_BoundsForNonEmpty ==
    (pc # "call" /\ Len(fn_arg) > 0) => QrBoundsOfString

\* the call returned for the doctest string
C15_Witness ==
    /\ pc = "ret"
    /\ fn_arg = DoctestLine
    /\ output[1] = 68
    /\ output[2] = 89

\* the range that RANGES gives the encoding contains [lo, hi]
RangeContains(encoding, lo, hi) ==
    \E k \in 1..Len(RANGES) :
        RANGES[k][1] = encoding /\ RANGES[k][2] <= lo /\ RANGES[k][3] >= hi

\* every candidate reported has a range that contains the reported bounds
ReportedFits ==
    \A k \in 1..Len(output[1]) : RangeContains(output[1][k], output[2], output[3])

\* C17 (as claimed): a result reported after at least one line holds at least
\* one candidate, and the range of each candidate contains the reported bounds.
C17_ReportedFitsBounds ==
    (Reported /\ i >= 0) => (Len(output[1]) > 0 /\ ReportedFits)

\* C17 (amended): the same, the ranges containing the bounds unless the
\* heuristic lock had frozen the list.
C17_ReportedFitsUnlessLocked ==
    (Reported /\ i >= 0) =>
        (Len(output[1]) > 0 /\ (~stop_updating_valid => ReportedFits))

\* the input ended with several candidates left after three lines, not locked
C17_Witness ==
    /\ pc = "eof"
    /\ i >= 2
    /\ ~stop_updating_valid
    /\ output = <<(<<"Solexa", "Illumina-1.3">>), 64, 104>>

\* C18 (as claimed): once the first line is processed, the candidates after a
\* line are a subset of the candidates before it, under every configuration.
C18_OnlyShrinks ==
    [][ i >= 0 => SetOf(valid') \subseteq SetOf(valid) ]_vars

\* C18 (amended): the same, unless a line limit is set (num_lines_to_test is
\* not -1) and the candidates before the line were narrowed by a heuristic.
C18_ShrinksUnlessHeuristicUndone ==
    [][ (i >= 0 /\ (num_lines_to_test = NO_LIMIT \/ ~is_valid_modified))
          => SetOf(valid') \subseteq SetOf(valid) ]_vars

\* a second line removed Sanger from the candidates of the first
C18_Witness ==
    /\ pc = "unique"
    /\ i = 1
    /\ seen = <<33, 74>>
    /\ valid = <<"Illumina-1.8">>
    /\ ~is_valid_modified

\* C19: in the loop the hard rule never fires.  After a line that holds 64 or
\* 65 the candidates of the running bounds do not hold Illumina-1.5, and a list
\* flagged as narrowed by a heuristic is the one the soft rule gives.
C19_HardRuleNeverFires ==
    /\ at_or_a => "Illumina-1.5" \notin SetOf(get_encodings_in_range(gmin, gmax))
    /\ is_valid_modified => (valid = <<"Illumina-1.5">> /\ ~disable_uncertain_heuristics)

\* a later line with 64 or 65 took Illumina-1.5 out by the bounds alone
C19_Witness ==
    /\ at_or_a
    /\ i >= 1
    /\ seen = <<64, 104>>
    /\ valid = <<"Solexa", "Illumina-1.3">>
    /\ ~is_valid_modified

\* C20: a line that extends neither bound leaves the candidates, the lock and
\* the heuristic flag as they were and ends the run only by the line limit.
C20_NoExtensionNoChange ==
    [][ (pc = "scan" /\ i' = i + 1 /\ pc' # "crash" /\ gmin' = gmin /\ gmax' = gmax)
          => ( /\ valid' = valid
               /\ stop_updating_valid' = stop_updating_valid
               /\ is_valid_modified' = is_valid_modified
               /\ ~err_exit'
               /\ pc' \in {"scan", "limit"}
               /\ pc' = "limit" => num_lines_to_test > 0 ) ]_vars

\* the line limit ended the run on the third of three lines of the same value
C20_Witness ==
    /\ pc = "limit"
    /\ i = 2
    /\ seen = <<33, 33>>
    /\ gmin = 33 /\ gmax = 33
    /\ valid = <<"Sanger", "Illumina-1.8">>

====
